---- MODULE Spec2Model ----
(***************************************************************************)
(* Model of src/src/data/preprocessing.py: verificar_columna_numerica      *)
(* (validate) and verificar_multiples_columnas (validate_all).             *)
(*                                                                         *)
(* A DataFrame is a sequence of named columns sharing a default            *)
(* RangeIndex (labels 0..n-1) with unique column names.  A cell is a       *)
(* tagged value:                                                           *)
(*   kind "none"  - Python None                 (null)                     *)
(*   kind "nan"   - float('nan')                (null)                     *)
(*   kind "num"   - an int/float object float() converts                   *)
(*   kind "big"   - an int too large for a float (10**400): float() raises *)
(*                  OverflowError                                          *)
(*   kind "text"  - a str, held as the sequence of its code points         *)
(*   kind "other" - a non-str object pd.isnull finds not null and float()  *)
(*                  rejects with TypeError (a dict, a tuple, the list [1]) *)
(*   kind "lista_nula" - a one-element list whose element is null, [None]: *)
(*                  pd.isnull gives array([True]), which is truthy, while  *)
(*                  Series.isnull() does not count the cell as null        *)
(*   kind "lista" - a list of two or more elements, [1, 2]: pd.isnull      *)
(*                  gives an array whose truth value raises ValueError     *)
(* The empty list [] behaves as "other" or as "lista" according to the     *)
(* numpy release (truth value of an empty array: False, or ValueError).    *)
(* Both functions are pure: a behaviour is one call on one table.          *)
(***************************************************************************)
EXTENDS Integers, Sequences, FiniteSets

VARIABLES df, fase, operacion, resultado, resultados, error, impreso, llamadas

vars == <<df, fase, operacion, resultado, resultados, error, impreso, llamadas>>

\* ---------------------------------------------------------------- bounds
\* Largest number of cells (rows x columns) of a table.
MaxCells == 2
\* Longest list of column names handed to verificar_multiples_columnas.
MaxList == 3

\* ---------------------------------------------------------------- inputs
\* A character is its Unicode code point.
\* The characters str.strip() removes: "\t" "\n" "\v" "\f" "\r", the
\* separators 28-31, " ", NEL, NBSP and the Unicode spaces.
Espacios ==
  {9, 10, 11, 12, 13, 28, 29, 30, 31, 32, 133, 160, 5760}
    \cup (8192..8202) \cup {8232, 8233, 8239, 8287, 12288}

\* The characters float(str) skips at both ends: the same without 28-31.
EspaciosFloat == Espacios \ (28..31)

\* First code point of each run of ten Unicode decimal digits (category Nd),
\* "0" (48) first.
InicioDigitos ==
  { 48, 1632, 1776, 1984, 2406, 2534, 2662, 2790, 2918, 3046, 3174,
    3302, 3430, 3558, 3664, 3792, 3872, 4160, 4240, 6112, 6160, 6470,
    6608, 6784, 6800, 6992, 7088, 7232, 7248, 42528, 43216, 43264,
    43472, 43504, 43600, 44016, 65296, 66720, 68912, 69734, 69872,
    69942, 70096, 70384, 70736, 70864, 71248, 71360, 71472, 71904,
    72016, 72784, 73040, 73120, 92768, 92864, 93008, 123200, 123632,
    125264, 130032 }

\* Every Unicode decimal digit; 120782..120831 are the five mathematical
\* digit alphabets.
Digitos == UNION {b..(b + 9) : b \in InicioDigitos} \cup (120782..120831)

\* "+" and "-"
Signos == {43, 45}

\* "E" and "e"
Exponentes == {69, 101}

\* The str cells tried:
\*   "", " 4 ", "x", " x ", "4.5", "4 4", "-4", ".", "4e5", "NaN", "4_5",
\*   "\f4", "\x1c4", "\u0664" (ARABIC-INDIC DIGIT FOUR)
Textos ==
  { <<>>, <<32, 52, 32>>, <<120>>, <<32, 120, 32>>,
    <<52, 46, 53>>, <<52, 32, 52>>, <<45, 52>>, <<46>>,
    <<52, 101, 53>>, <<78, 97, 78>>, <<52, 95, 53>>,
    <<12, 52>>, <<28, 52>>, <<1636>> }

Celda(k, t) == [kind |-> k, text |-> t]

CeldasObjeto ==
  {Celda("none", <<>>), Celda("nan", <<>>), Celda("num", <<>>), Celda("big", <<>>),
   Celda("other", <<>>), Celda("lista_nula", <<>>), Celda("lista", <<>>)}
    \cup {Celda("text", t) : t \in Textos}

CeldasDe(dtype) ==
  CASE dtype = "object" -> CeldasObjeto
    [] dtype = "float64" -> {Celda("num", <<>>), Celda("nan", <<>>)}
    [] dtype = "int64" -> {Celda("num", <<>>)}

DTypes == {"object", "float64", "int64"}

Solicitables == {"a", "b", "missing_col"}

ColumnasDe(nombre, n) ==
  UNION { {[nombre |-> nombre, dtype |-> t, celdas |-> c] : c \in [1..n -> CeldasDe(t)]}
          : t \in DTypes }

\* Tables of one column "a" or of two columns "a", "b" with the same rows.
Tablas ==
  UNION { {<<c>> : c \in ColumnasDe("a", n)} : n \in 0..MaxCells }
    \cup UNION { {<<c1, c2>> : c1 \in ColumnasDe("a", n), c2 \in ColumnasDe("b", n)}
                 : n \in {m \in 0..MaxCells : 2 * m <= MaxCells} }

ListasDe(S, n) == UNION {[1..m -> S] : m \in 0..n}

\* ------------------------------------------------- str.strip() and float()
RECURSIVE LStrip(_)
LStrip(s) ==
  IF s = <<>> THEN s
  ELSE IF Head(s) \in Espacios THEN LStrip(Tail(s)) ELSE s

RECURSIVE RStrip(_)
RStrip(s) ==
  IF s = <<>> THEN s
  ELSE IF s[Len(s)] \in Espacios THEN RStrip(SubSeq(s, 1, Len(s) - 1)) ELSE s

\* valor.strip(): leading and trailing whitespace removed.
Strip(s) == RStrip(LStrip(s))

\* The ASCII letters of "INFTYA" in lower case; float() matches the words
\* inf, infinity and nan in any ASCII case.
Minuscula(c) == IF c \in {73, 78, 70, 84, 89, 65} THEN c + 32 ELSE c

EnMinusculas(s) == [k \in 1..Len(s) |-> Minuscula(s[k])]

\* float()'s own trimming of the text it is given.
RECURSIVE LStripFloat(_)
LStripFloat(s) ==
  IF s = <<>> THEN s
  ELSE IF Head(s) \in EspaciosFloat THEN LStripFloat(Tail(s)) ELSE s

RECURSIVE RStripFloat(_)
RStripFloat(s) ==
  IF s = <<>> THEN s
  ELSE IF s[Len(s)] \in EspaciosFloat THEN RStripFloat(SubSeq(s, 1, Len(s) - 1))
       ELSE s

\* digit (["_"] digit)*         ("_" is 95)
ParteDigitos(u) ==
  /\ u # <<>>
  /\ \A k \in 1..Len(u) : u[k] \in Digitos \cup {95}
  /\ u[1] \in Digitos /\ u[Len(u)] \in Digitos
  /\ \A k \in 1..Len(u) - 1 : ~(u[k] = 95 /\ u[k + 1] = 95)

\* digitpart | [digitpart] "." digitpart | digitpart "."      ("." is 46)
Mantisa(u) ==
  LET puntos == {k \in 1..Len(u) : u[k] = 46} IN
  IF puntos = {} THEN ParteDigitos(u)
  ELSE LET p == CHOOSE k \in puntos : \A m \in puntos : k <= m
           entera == SubSeq(u, 1, p - 1)
           fraccion == SubSeq(u, p + 1, Len(u))
       IN  /\ entera = <<>> \/ ParteDigitos(entera)
           /\ fraccion = <<>> \/ ParteDigitos(fraccion)
           /\ entera # <<>> \/ fraccion # <<>>

\* ("e" | "E") ["+" | "-"] digitpart, given without its first letter.
Exponente(u) ==
  ParteDigitos(IF u # <<>> /\ u[1] \in Signos THEN Tail(u) ELSE u)

\* mantissa [exponent]
NumeroDecimal(u) ==
  LET es == {k \in 1..Len(u) : u[k] \in Exponentes} IN
  IF es = {} THEN Mantisa(u)
  ELSE LET p == CHOOSE k \in es : \A m \in es : k <= m
       IN  Mantisa(SubSeq(u, 1, p - 1)) /\ Exponente(SubSeq(u, p + 1, Len(u)))

\* float(str) succeeds: [ws] [sign] (number | inf | infinity | nan) [ws],
\* the three words in any case.
FloatOk(s) ==
  LET t == RStripFloat(LStripFloat(s))
      u == IF t # <<>> /\ Head(t) \in Signos THEN Tail(t) ELSE t
  IN  \/ EnMinusculas(u) \in {<<105, 110, 102>>, <<110, 97, 110>>,
                              <<105, 110, 102, 105, 110, 105, 116, 121>>}
      \/ NumeroDecimal(u)

\* float(valor) raises an exception the except clause catches: ValueError
\* (bad str) or TypeError (a dict, a list).
float_lanza(valor) ==
  CASE valor.kind = "text" -> ~FloatOk(valor.text)
    [] valor.kind \in {"num", "nan", "big"} -> FALSE
    [] OTHER -> TRUE

\* float(valor) raises OverflowError, which the except clause does not catch.
float_desborda(valor) == valor.kind = "big"

\* A null test that knows NaN only (valor != valor).
pd_isnull_nan(valor) == valor.kind = "nan"

\* if pd.isnull(valor): the test is true.  None and NaN give True; a list
\* gives an array, and array([True]) is truthy.
pd_isnull(valor) == valor.kind \in {"none", "nan", "lista_nula"}

\* if pd.isnull(valor): the test itself raises ValueError ("The truth value
\* of an array with more than one element is ambiguous").
pd_isnull_lanza(valor) == valor.kind = "lista"

\* serie.isnull(): the mask of null cells, by position.  A list is an object
\* like any other and is never null here.
serie_isnull(serie) == [i \in 1..Len(serie) |-> serie[i].kind \in {"none", "nan"}]

\* if isinstance(valor, str): valor = valor.strip()
limpiar(valor) ==
  IF valor.kind = "text" THEN [valor EXCEPT !.text = Strip(valor.text)] ELSE valor

\* The RangeIndex label of the cell at position i.
Etiqueta(i) == i - 1

RECURSIVE IndicesDesde(_, _)
IndicesDesde(mask, i) ==
  IF i > Len(mask) THEN <<>>
  ELSE IF mask[i] THEN <<Etiqueta(i)>> \o IndicesDesde(mask, i + 1)
       ELSE IndicesDesde(mask, i + 1)

\* Positions, counted from 1, in place of index labels.
indices_nulos_posicion(serie) ==
  [k \in 1..Len(IndicesDesde(serie_isnull(serie), 1)) |->
     IndicesDesde(serie_isnull(serie), 1)[k] + 1]

\* serie[serie.isnull()].index.tolist()
indices_nulos(serie) == IndicesDesde(serie_isnull(serie), 1)

\* serie.isnull().sum()
valores_nulos(serie) == Cardinality({i \in 1..Len(serie) : serie_isnull(serie)[i]})

\* pd.api.types.is_numeric_dtype(serie)
is_numeric_dtype(dtype) == dtype \in {"float64", "int64"}

\* ------------------------------------------------ verificar_columna_numerica
\* A local variable assigned once is written  x \in {e} , which gives x the
\* value of e:  CHOOSE r \in {F(x) : x \in {e}} : TRUE  is F(e).
Columnas(d) == [j \in 1..Len(d) |-> d[j].nombre]

\* columna in df.columns
columna_existe(d, columna) == \E j \in 1..Len(d) : d[j].nombre = columna

Posicion(d, columna) == CHOOSE j \in 1..Len(d) : d[j].nombre = columna

\* The ValueError of a missing column, naming the column asked for only.
error_columna_sin_lista(d, columna) ==
  [tipo |-> "ValueError", mensaje |-> "columna_no_existe", columna |-> columna,
   disponibles |-> <<columna>>]

\* raise ValueError(f"La columna '{columna}' no existe ... {list(df.columns)}")
error_columna(d, columna) ==
  [tipo |-> "ValueError", mensaje |-> "columna_no_existe", columna |-> columna,
   disponibles |-> Columnas(d)]

\* OverflowError("int too large to convert to float") out of float(valor).
error_desbordamiento ==
  [tipo |-> "OverflowError", mensaje |-> "int_demasiado_grande", columna |-> "",
   disponibles |-> <<>>]

\* ValueError out of the truth test of pd.isnull(valor), outside the try.
error_ambiguo ==
  [tipo |-> "ValueError", mensaje |-> "valor_ambiguo", columna |-> "",
   disponibles |-> <<>>]

SinError == [tipo |-> "ninguno", mensaje |-> "", columna |-> "", disponibles |-> <<>>]

\* The resultado dict as first built, before any cell is looked at.
resultado_inicial(col) ==
  [es_numerica |-> FALSE,
   tipo_dato |-> col.dtype,
   valores_no_numericos |-> <<>>,
   cantidad_no_numericos |-> 0,
   indices_no_numericos |-> <<>>,
   total_valores |-> Len(col.celdas),
   valores_nulos |-> valores_nulos(col.celdas),
   indices_nulos |-> indices_nulos(col.celdas)]

SinResultado ==
  [es_numerica |-> FALSE, tipo_dato |-> "ninguno", valores_no_numericos |-> <<>>,
   cantidad_no_numericos |-> 0, indices_no_numericos |-> <<>>, total_valores |-> 0,
   valores_nulos |-> 0, indices_nulos |-> <<>>]

\* The stripped text written back into the cell it came from.
serie_tras_limpiar_escribe(serie, i, valor) == [serie EXCEPT ![i] = valor]

\* valor = valor.strip() rebinds the loop variable; the Series keeps its cell.
serie_tras_limpiar(serie, i, valor) == serie

\* valores_no_numericos.append(valor); indices_no_numericos.append(idx)
anotar(acc, valor, idx) ==
  [acc EXCEPT !.valores = Append(@, valor), !.indices = Append(@, idx)]

\* The body of  for idx, valor in serie.items():  for the cell at position i.
paso(acc, i) ==
  LET valor == acc.serie[i] IN
  IF pd_isnull_lanza(valor)
  THEN [acc EXCEPT !.fin = "error", !.error = error_ambiguo]
  ELSE IF pd_isnull(valor) THEN acc
  ELSE LET limpio == limpiar(valor)
           acc2 == [acc EXCEPT !.serie = serie_tras_limpiar(@, i, limpio)]
       IN  IF float_desborda(limpio)
           THEN [acc2 EXCEPT !.fin = "error", !.error = error_desbordamiento]
           ELSE IF float_lanza(limpio) THEN anotar(acc2, limpio, Etiqueta(i))
           ELSE acc2

\* The loop runs to the end of the column or to the first cell whose
\* exception leaves it.
RECURSIVE escanear(_, _)
escanear(acc, i) ==
  IF i > Len(acc.serie) \/ acc.fin = "error" THEN acc
  ELSE CHOOSE r \in {escanear(sig, i + 1) : sig \in {paso(acc, i)}} : TRUE

\* es_numerica left as it was first set, cantidad counted from the indices.
actualizar_sin_bandera(res, valores, indices) ==
  [res EXCEPT !.valores_no_numericos = valores,
              !.cantidad_no_numericos = Len(indices),
              !.indices_no_numericos = indices]

\* The four assignments that close the scan.
actualizar(res, valores, indices) ==
  [res EXCEPT !.valores_no_numericos = valores,
              !.cantidad_no_numericos = Len(valores),
              !.indices_no_numericos = indices,
              !.es_numerica = (Len(valores) = 0)]

\* What verbose mode prints for a column of numeric dtype.
impreso_numerica == <<"ok_numerica", "tipo", "total", "nulos">>

DetalleNulos(res) ==
  IF res.valores_nulos > 0
  THEN <<"sep", "detalle_nulos", "sep", "indices_nulos", "sep">>
  ELSE <<>>

\* What verbose mode prints after a scan.
impreso_escaneo(res) ==
  IF res.es_numerica
  THEN <<"ok_convertible", "tipo", "total", "nulos">> \o DetalleNulos(res)
  ELSE <<"no_numerica", "tipo", "total", "nulos", "no_numericos">>
         \o DetalleNulos(res)
         \o <<"sep", "detalle_no_numericos", "sep", "cabecera", "raya">>
         \o [k \in 1..Len(res.indices_no_numericos) |-> "fila"]
         \o <<"sep">>

ConColumna(d, j, serie) == [d EXCEPT ![j].celdas = serie]

\* verificar_columna_numerica(df, columna, verbose): how the call ends
\* ("retorno" or "error"), what it returns or raises, what it prints and the
\* table it leaves behind.
verificar_columna_numerica(d, columna, verbose) ==
  IF ~columna_existe(d, columna)
  THEN [fin |-> "error", resultado |-> SinResultado, error |-> error_columna(d, columna),
        impreso |-> <<>>, df |-> d]
  ELSE
    LET j == Posicion(d, columna)
        col == d[j]
        res0 == resultado_inicial(col)
    IN  IF is_numeric_dtype(col.dtype)
        THEN [fin |-> "retorno", resultado |-> [res0 EXCEPT !.es_numerica = TRUE],
              error |-> SinError,
              impreso |-> IF verbose THEN impreso_numerica ELSE <<>>, df |-> d]
        ELSE
          CHOOSE fin \in
            { IF acc.fin = "error"
              THEN [fin |-> "error", resultado |-> SinResultado,
                    error |-> acc.error, impreso |-> <<>>,
                    df |-> ConColumna(d, j, acc.serie)]
              ELSE LET res == actualizar(res0, acc.valores, acc.indices)
                   IN  [fin |-> "retorno", resultado |-> res, error |-> SinError,
                        impreso |-> IF verbose THEN impreso_escaneo(res) ELSE <<>>,
                        df |-> ConColumna(d, j, acc.serie)]
              : acc \in {escanear([serie |-> col.celdas, valores |-> <<>>,
                                   indices |-> <<>>, fin |-> "sigue",
                                   error |-> SinError], 1)} } : TRUE

\* ---------------------------------------------- verificar_multiples_columnas
\* A dict is a sequence of key/value pairs in insertion order.
Claves(m) == [k \in 1..Len(m) |-> m[k].clave]

TieneClave(m, c) == \E k \in 1..Len(m) : m[k].clave = c

Valor(m, c) == m[CHOOSE k \in 1..Len(m) : m[k].clave = c].valor

\* resultados[col] = resultado: a new key goes last, a known key keeps its place.
dict_poner(m, c, v) ==
  IF TieneClave(m, c)
  THEN [k \in 1..Len(m) |-> IF m[k].clave = c THEN [clave |-> c, valor |-> v] ELSE m[k]]
  ELSE Append(m, [clave |-> c, valor |-> v])

\* columnas = df.columns.tolist() when columnas is None
columnas_efectivas(d, columnas, omitida) == IF omitida THEN Columnas(d) ELSE columnas

\* One iteration of  for col in columnas:  ; an exception out of the call is
\* not caught.
iteracion(acc, col, verbose) ==
  LET imp == IF verbose THEN Append(acc.impreso, "columna") ELSE acc.impreso
  IN  CHOOSE sig \in
        { IF r.fin = "error"
          THEN [acc EXCEPT !.fin = "error", !.error = r.error,
                           !.llamadas = Append(@, col), !.impreso = imp]
          ELSE [acc EXCEPT !.resultados = dict_poner(@, col, r.resultado),
                           !.llamadas = Append(@, col),
                           !.impreso = imp \o r.impreso,
                           !.df = r.df]
          : r \in {verificar_columna_numerica(acc.df, col, verbose)} } : TRUE

RECURSIVE bucle(_, _, _, _)
bucle(acc, columnas, k, verbose) ==
  IF k > Len(columnas) \/ acc.fin = "error" THEN acc
  ELSE CHOOSE r \in {bucle(sig, columnas, k + 1, verbose)
                       : sig \in {iteracion(acc, columnas[k], verbose)}} : TRUE

RECURSIVE Filtrar(_, _)
Filtrar(m, numericas) ==
  IF m = <<>> THEN <<>>
  ELSE (IF Head(m).valor.es_numerica = numericas THEN <<Head(m).clave>> ELSE <<>>)
         \o Filtrar(Tail(m), numericas)

\* The RESUMEN block of verbose mode.
impreso_resumen(m) ==
  <<"sep", "resumen", "sep", "numericas">>
    \o [k \in 1..Len(Filtrar(m, TRUE)) |-> "item"]
    \o (IF Filtrar(m, FALSE) # <<>>
        THEN <<"no_numericas">> \o [k \in 1..Len(Filtrar(m, FALSE)) |-> "item"]
        ELSE <<>>)

\* verificar_multiples_columnas(df, columnas, verbose); omitida is columnas=None.
verificar_multiples_columnas(d, columnas, omitida, verbose) ==
  LET cols == columnas_efectivas(d, columnas, omitida)
      acc0 == [fin |-> "sigue", resultados |-> <<>>, error |-> SinError,
               llamadas |-> <<>>,
               impreso |-> IF verbose THEN <<"sep", "titulo", "sep">> ELSE <<>>,
               df |-> d]
  IN  CHOOSE fin \in
        { IF acc.fin = "error"
          THEN [acc EXCEPT !.resultados = <<>>]
          ELSE [acc EXCEPT !.fin = "retorno",
                           !.impreso = IF verbose
                                       THEN @ \o impreso_resumen(acc.resultados)
                                       ELSE @]
          : acc \in {bucle(acc0, cols, 1, verbose)} } : TRUE

\* ------------------------------------------------------------ state machine
Init ==
  /\ df \in Tablas
  /\ fase = "inicio"
  /\ operacion = [op |-> "ninguna", columna |-> "", columnas |-> <<>>,
                  omitida |-> FALSE, verbose |-> FALSE]
  /\ resultado = SinResultado
  /\ resultados = <<>>
  /\ error = SinError
  /\ impreso = <<>>
  /\ llamadas = <<>>

\* A call of verificar_columna_numerica(df, columna, verbose).
Verificar ==
  /\ fase = "inicio"
  /\ \E columna \in Solicitables, verbose \in BOOLEAN :
       \E r \in {verificar_columna_numerica(df, columna, verbose)} :
       /\ operacion' = [op |-> "verificar_columna_numerica", columna |-> columna,
                        columnas |-> <<>>, omitida |-> FALSE, verbose |-> verbose]
       /\ fase' = r.fin
       /\ resultado' = r.resultado
       /\ error' = r.error
       /\ impreso' = r.impreso
       /\ df' = r.df
       /\ llamadas' = <<columna>>
       /\ UNCHANGED resultados

\* A call of verificar_multiples_columnas(df, columnas, verbose).
VerificarMultiples ==
  /\ fase = "inicio"
  /\ \E columnas \in ListasDe(Solicitables, MaxList), omitida \in BOOLEAN,
        verbose \in BOOLEAN :
       /\ omitida => columnas = <<>>
       /\ \E r \in {verificar_multiples_columnas(df, columnas, omitida, verbose)} :
          /\ operacion' = [op |-> "verificar_multiples_columnas", columna |-> "",
                           columnas |-> columnas, omitida |-> omitida,
                           verbose |-> verbose]
          /\ fase' = r.fin
          /\ resultados' = r.resultados
          /\ error' = r.error
          /\ impreso' = r.impreso
          /\ df' = r.df
          /\ llamadas' = r.llamadas
          /\ UNCHANGED resultado

Next == Verificar \/ VerificarMultiples

Spec == Init /\ [][Next]_vars

\* ------------------------------------------------------------------ claims
Unica == operacion.op = "verificar_columna_numerica"

Multiple == operacion.op = "verificar_multiples_columnas"

\* Every report a finished call has handed back, with the column it is about.
Informes ==
  IF fase # "retorno" THEN {}
  ELSE IF Unica THEN {[col |-> operacion.columna, res |-> resultado]}
  ELSE {[col |-> resultados[k].clave, res |-> resultados[k].valor] : k \in 1..Len(resultados)}

ColumnaDe(nombre) == df[CHOOSE j \in 1..Len(df) : df[j].nombre = nombre]

CeldasDeColumna(nombre) == ColumnaDe(nombre).celdas

\* A null cell, as the report counts nulls: None or NaN.  A list is a value,
\* whatever it holds.
EsNula(c) == c.kind = "none" \/ c.kind = "nan"

\* The cell, trimmed when it is text, parses as a floating-point number.
Convierte(c) ==
  \/ c.kind = "num"
  \/ c.kind = "text" /\ FloatOk(Strip(c.text))

Rellena(c) == c.kind = "text" /\ Strip(c.text) # c.text

Conjunto(s) == {s[k] : k \in 1..Len(s)}

Creciente(s) == \A k \in 1..Len(s) - 1 : s[k] < s[k + 1]

\* The list s holds, in ascending order and once each, the labels in S.
ListaOrdenadaDe(s, S) == Creciente(s) /\ Conjunto(s) = S

EtiquetasNulas(celdas) == {i - 1 : i \in {p \in 1..Len(celdas) : EsNula(celdas[p])}}

EtiquetasFallidas(celdas) ==
  {i - 1 : i \in {p \in 1..Len(celdas) : ~EsNula(celdas[p]) /\ ~Convierte(celdas[p])}}

TodasConvierten(celdas) ==
  \A i \in 1..Len(celdas) : EsNula(celdas[i]) \/ Convierte(celdas[i])

ExisteColumna(nombre) == nombre \in Conjunto(Columnas(df))

\* C1: for a column whose dtype is not numeric, a call returns es_numerica =
\* true exactly when every non-null cell, trimmed if it is text, parses as a
\* float; the same holds of every report in a returned mapping.
C1_NumericaSiiTodasConvierten ==
  /\ (Unica /\ ExisteColumna(operacion.columna)
         /\ ColumnaDe(operacion.columna).dtype = "object") =>
        ((fase = "retorno" /\ resultado.es_numerica)
           <=> TodasConvierten(CeldasDeColumna(operacion.columna)))
  /\ \A inf \in Informes :
       ColumnaDe(inf.col).dtype = "object" =>
         (inf.res.es_numerica <=> TodasConvierten(CeldasDeColumna(inf.col)))

\* C2: a column of numeric dtype is reported numeric with no non-numeric
\* values, indices or count, while the total, the null count and the null
\* indices describe the column.
C2_TipoNumericoAtajo ==
  /\ (Unica /\ ExisteColumna(operacion.columna)
         /\ ColumnaDe(operacion.columna).dtype \in {"float64", "int64"}) =>
        fase = "retorno"
  /\ \A inf \in Informes :
    ColumnaDe(inf.col).dtype \in {"float64", "int64"} =>
      /\ inf.res.es_numerica
      /\ inf.res.valores_no_numericos = <<>>
      /\ inf.res.indices_no_numericos = <<>>
      /\ inf.res.cantidad_no_numericos = 0
      /\ inf.res.total_valores = Len(CeldasDeColumna(inf.col))
      /\ inf.res.valores_nulos = Cardinality(EtiquetasNulas(CeldasDeColumna(inf.col)))
      /\ ListaOrdenadaDe(inf.res.indices_nulos, EtiquetasNulas(CeldasDeColumna(inf.col)))

\* A float64 column with a NaN cell was validated.
C2_Testigo ==
  /\ fase = "retorno" /\ Unica
  /\ ColumnaDe(operacion.columna).dtype = "float64"
  /\ resultado.valores_nulos >= 1
  /\ resultado.es_numerica

\* C3: in every report the count equals the length of the value list and of
\* the index list, and es_numerica is true exactly when the count is zero.
C3_CantidadYBandera ==
  \A inf \in Informes :
    /\ inf.res.cantidad_no_numericos = Len(inf.res.valores_no_numericos)
    /\ inf.res.cantidad_no_numericos = Len(inf.res.indices_no_numericos)
    /\ inf.res.es_numerica <=> (inf.res.cantidad_no_numericos = 0)

\* A scanned column with two failing cells was reported, count 2, not numeric.
C3_Testigo ==
  /\ fase = "retorno" /\ Unica
  /\ ColumnaDe(operacion.columna).dtype = "object"
  /\ resultado.cantidad_no_numericos = 2
  /\ ~resultado.es_numerica

\* C4: no null cell is reported as non-numeric: the non-numeric indices are
\* disjoint from the null indices and from the labels of the null cells, and
\* a column of nulls only is numeric.
C4_NulosNuncaNoNumericos ==
  \A inf \in Informes :
    /\ Conjunto(inf.res.indices_no_numericos) \cap Conjunto(inf.res.indices_nulos) = {}
    /\ Conjunto(inf.res.indices_no_numericos) \cap EtiquetasNulas(CeldasDeColumna(inf.col)) = {}
    /\ Conjunto(inf.res.indices_nulos) = EtiquetasNulas(CeldasDeColumna(inf.col))
    /\ (\A i \in 1..Len(CeldasDeColumna(inf.col)) : EsNula(CeldasDeColumna(inf.col)[i]))
         => inf.res.es_numerica

\* A scanned column made of None cells only was reported.
C4_Testigo ==
  /\ fase = "retorno" /\ Unica
  /\ ColumnaDe(operacion.columna).dtype = "object"
  /\ Len(CeldasDeColumna(operacion.columna)) >= 1
  /\ \A i \in 1..Len(CeldasDeColumna(operacion.columna)) :
       CeldasDeColumna(operacion.columna)[i].kind = "none"
  /\ resultado.es_numerica

\* C5: validating a column the table does not have raises ValueError listing
\* the table's column names, with nothing printed and no report.
C5_ColumnaAusenteLanza ==
  (Unica /\ operacion.columna \notin Conjunto(Columnas(df))) =>
    /\ fase = "error"
    /\ error.tipo = "ValueError"
    /\ error.mensaje = "columna_no_existe"
    /\ error.columna = operacion.columna
    /\ error.disponibles = Columnas(df)
    /\ impreso = <<>>
    /\ resultado = SinResultado

\* A verbose call asked a two-column table for a column it does not have.
C5_Testigo ==
  /\ fase = "error" /\ Unica
  /\ operacion.columna \notin Conjunto(Columnas(df))
  /\ error.tipo = "ValueError"
  /\ operacion.verbose
  /\ Len(df) = 2

\* The column names the batch call iterates over.
Pedidas == IF operacion.omitida THEN Columnas(df) ELSE operacion.columnas

Ausentes == {k \in 1..Len(Pedidas) : Pedidas[k] \notin Conjunto(Columnas(df))}

PrimeraAusente == CHOOSE k \in Ausentes : \A m \in Ausentes : k <= m

RECURSIVE SinRepetidos(_)
SinRepetidos(s) ==
  IF s = <<>> THEN <<>>
  ELSE LET r == SinRepetidos(SubSeq(s, 1, Len(s) - 1))
       IN  IF s[Len(s)] \in Conjunto(r) THEN r ELSE Append(r, s[Len(s)])

\* C6: a batch naming an absent column raises ValueError for the first absent
\* name, returns no mapping, and validates no column after that name.
C6_AusenteAbortaLote ==
  (Multiple /\ Ausentes # {}) =>
    /\ fase = "error"
    /\ error.tipo = "ValueError"
    /\ error.columna = Pedidas[PrimeraAusente]
    /\ error.disponibles = Columnas(df)
    /\ resultados = <<>>
    /\ llamadas = SubSeq(Pedidas, 1, PrimeraAusente)

\* C7: a batch whose names all exist validates each listed name once, in list
\* order (table order when the list is omitted), and returns a mapping whose
\* keys are the names in order of first appearance, each with the report
\* verificar_columna_numerica gives for that column.
C7_LoteEnOrden ==
  (Multiple /\ Ausentes = {}) =>
    /\ fase = "retorno"
    /\ llamadas = Pedidas
    /\ Claves(resultados) = SinRepetidos(Pedidas)
    /\ \A k \in 1..Len(resultados) :
         resultados[k].valor =
           verificar_columna_numerica(df, resultados[k].clave, FALSE).resultado

\* C8: no call changes the table: every step leaves df as it was.
C8_TablaIntacta == [][df' = df]_vars

\* A batch validated a column holding a padded text cell.
C8_Testigo ==
  /\ fase = "retorno" /\ Multiple
  /\ \E k \in 1..Len(llamadas) :
       \E i \in 1..Len(CeldasDeColumna(llamadas[k])) :
         Rellena(CeldasDeColumna(llamadas[k])[i])

\* C9: every value recorded in valores_no_numericos is the original cell at
\* the index recorded with it, whitespace included.
C9_ValorOriginal ==
  \A inf \in Informes :
    ColumnaDe(inf.col).dtype = "object" =>
      \A k \in 1..Len(inf.res.indices_no_numericos) :
        inf.res.valores_no_numericos[k]
          = CeldasDeColumna(inf.col)[inf.res.indices_no_numericos[k] + 1]

\* C10: for a column whose dtype is not numeric, the call returns a report
\* in which indices_no_numericos lists once each, in scan order, the indices
\* of exactly the non-null cells that fail the parse, valores_no_numericos
\* holds at the same place the value taken from that cell, and es_numerica
\* is false when a cell fails.
C10_ListaDeFallos ==
  /\ (Unica /\ ExisteColumna(operacion.columna)
         /\ ColumnaDe(operacion.columna).dtype = "object") =>
        fase = "retorno"
  /\ \A inf \in Informes :
    ColumnaDe(inf.col).dtype = "object" =>
      /\ ListaOrdenadaDe(inf.res.indices_no_numericos,
                         EtiquetasFallidas(CeldasDeColumna(inf.col)))
      /\ Len(inf.res.valores_no_numericos) = Len(inf.res.indices_no_numericos)
      /\ \A k \in 1..Len(inf.res.indices_no_numericos) :
           LET c == CeldasDeColumna(inf.col)[inf.res.indices_no_numericos[k] + 1]
               v == inf.res.valores_no_numericos[k]
           IN  /\ v.kind = c.kind
               /\ v.text = Strip(c.text)
      /\ EtiquetasFallidas(CeldasDeColumna(inf.col)) # {} => ~inf.res.es_numerica

====
